---- MODULE Spec2Model ----
(***************************************************************************)
(* Model of the t3 pipeline (python -m t3): one run of main() over a work  *)
(* directory, with the file system, the external tools (libtiptoi, sox,    *)
(* silero VAD, the SeamlessExpressive translator, ffmpeg) and the two      *)
(* worker pools.  Paths, file names and transcripts are sequences of       *)
(* one-character strings so that basename/splitext/join/replace/`in` are   *)
(* computed the way the Python code computes them.                         *)
(***************************************************************************)
EXTENDS Integers, Sequences, FiniteSets, TLC

\* ------------------------------------------------------------------ bounds
\* Number of clips a cartridge may hold.
MaxClips == 2

\* ------------------------------------------------------- program constants
\* check_audio_length(audio_path, max_length=50)
max_length == 50

\* An optional value: Nothing, or Some(x).
Nothing == <<>>
Some(x) == <<x>>
\* err when no exception was raised.
None == "None"

\* ------------------------------------------------------------ string data
S_extracted == <<"e","x","t","r","a","c","t","e","d">>
S_translated == <<"t","r","a","n","s","l","a","t","e","d">>
S_final == <<"f","i","n","a","l">>
S_filelist_txt == <<"f","i","l","e","l","i","s","t",".","t","x","t">>
S_report_csv == <<"r","e","p","o","r","t",".","c","s","v">>
S_ogg == <<".","o","g","g">>
S_mp3 == <<".","m","p","3">>
S_txt == <<".","t","x","t">>
S_eng_gme == <<" ","(","e","n","g",")",".","g","m","e">>
S_deu == <<"d","e","u">>
S_eng == <<"e","n","g">>

\* Code points of the characters that occur in the modelled paths.
CharCode == [c \in {" ", "(", ")", ".", "/", "0", "1", "2", "3", "_",
                    "a", "c", "d", "e", "f", "g", "i", "l", "m", "n", "o",
                    "p", "r", "s", "t", "v", "w", "x"} |->
    CASE c = " " -> 32 [] c = "(" -> 40 [] c = ")" -> 41 [] c = "." -> 46
      [] c = "/" -> 47 [] c = "0" -> 48 [] c = "1" -> 49 [] c = "2" -> 50
      [] c = "3" -> 51 [] c = "_" -> 95 [] c = "a" -> 97 [] c = "c" -> 99
      [] c = "d" -> 100 [] c = "e" -> 101 [] c = "f" -> 102 [] c = "g" -> 103
      [] c = "i" -> 105 [] c = "l" -> 108 [] c = "m" -> 109 [] c = "n" -> 110
      [] c = "o" -> 111 [] c = "p" -> 112 [] c = "r" -> 114 [] c = "s" -> 115
      [] c = "t" -> 116 [] c = "v" -> 118 [] c = "w" -> 119 [] c = "x" -> 120]

\* ---------------------------------------------------------------- inputs
\* Clip base names the extraction tool may produce (<base>_<index>).
NamePool == << <<"a","_","1">>, <<"a","_","1","0">>, <<"a","_","2">> >>
Names == {NamePool[i] : i \in 1..Len(NamePool)}
\* Durations sox may report for a clip; Nothing when it cannot be determined.
Durations == {Some(max_length), Some(max_length + 1), Nothing}
\* work_dir arguments, one of them with a space.
WorkDirs == {<<"w">>, <<"w"," ","d">>}
\* input_gme_path argument.
input_gme_path == <<"g",".","g","m","e">>
\* Exit statuses of libtiptoi: 0, the status 1 that the handlers of
\* CalledProcessError name, and a status other than these two.
ExitCodes == {0, 1, 2}

\* A cartridge: the clips it holds, each with its duration and whether the
\* VAD hears a voice in it.
CartridgesOver(names) == UNION {[S -> [dur : Durations, voice : BOOLEAN]] :
                                   S \in {T \in SUBSET names : Cardinality(T) <= MaxClips}}
Cartridges == CartridgesOver(Names)

\* Clip file names of which one continues another with a character that
\* sorts below the "." of the extension.
PrefixNamePool == << <<"a","_","1">>, <<"a","_","1"," ","d">>, <<"a","_","2">> >>
PrefixNames == {PrefixNamePool[i] : i \in 1..Len(PrefixNamePool)}

\* ------------------------------------------------- sequences and strings
Drop(s, n) == SubSeq(s, n + 1, Len(s))
Take(s, n) == SubSeq(s, 1, n)
StartsWith(s, pre) == Len(pre) <= Len(s) /\ Take(s, Len(pre)) = pre
EndsWith(s, suf) == Len(suf) <= Len(s) /\ Drop(s, Len(s) - Len(suf)) = suf

\* Python `sub in s` on strings.
Contains(sub, s) == \E i \in 0..(Len(s) - Len(sub)) : SubSeq(s, i + 1, i + Len(sub)) = sub

\* Python str.replace(old, new), old non-empty: every non-overlapping
\* occurrence, left to right.
RECURSIVE str_replace(_, _, _)
str_replace(s, old, new) ==
    IF Len(s) < Len(old) THEN s
    ELSE IF StartsWith(s, old) THEN new \o str_replace(Drop(s, Len(old)), old, new)
    ELSE <<s[1]>> \o str_replace(Tail(s), old, new)

\* Index of the last "/" of p, 0 when there is none.
LastSlash(p) == IF \E i \in 1..Len(p) : p[i] = "/"
                THEN CHOOSE i \in 1..Len(p) : p[i] = "/" /\ \A j \in (i+1)..Len(p) : p[j] # "/"
                ELSE 0

\* os.path.basename
basename(p) == Drop(p, LastSlash(p))

\* Directory part of p without the trailing separator.
dirname(p) == LET i == LastSlash(p) IN IF i = 0 THEN <<>> ELSE Take(p, i - 1)

\* os.path.splitext: <<root, ext>>; the extension starts at the last dot of
\* the last component, unless only dots precede it in that component.
splitext(p) ==
    LET lo == LastSlash(p)
        dots == {i \in (lo + 1)..Len(p) : p[i] = "."}
        last == IF dots = {} THEN 0 ELSE CHOOSE i \in dots : \A j \in dots : j <= i
    IN IF last = 0 \/ (\A j \in (lo + 1)..last : p[j] = ".")
       THEN <<p, <<>> >>
       ELSE <<Take(p, last - 1), Drop(p, last - 1)>>

\* os.path.join(a, b)
join(a, b) == IF StartsWith(b, <<"/">>) THEN b
              ELSE IF a = <<>> \/ EndsWith(a, <<"/">>) THEN a \o b
              ELSE a \o <<"/">> \o b

\* Python string comparison s < t (by code point, a proper prefix first).
RECURSIVE StrLess(_, _)
StrLess(s, t) ==
    IF t = <<>> THEN FALSE
    ELSE IF s = <<>> THEN TRUE
    ELSE IF s[1] = t[1] THEN StrLess(Tail(s), Tail(t))
    ELSE CharCode[s[1]] < CharCode[t[1]]

\* sorted(paths)
sorted(paths) == SortSeq(paths, StrLess)

Range(s) == {s[i] : i \in 1..Len(s)}

\* Subsequence of s at the indices where keep holds (a list comprehension
\* with a filter).
RECURSIVE FilterIdx(_, _, _)
FilterIdx(s, keep, i) ==
    IF i > Len(s) THEN <<>>
    ELSE (IF keep[i] THEN <<s[i]>> ELSE <<>>) \o FilterIdx(s, keep, i + 1)

\* All orders in which a directory listing may enumerate the set S.
Orders(S) == {s \in [1..Cardinality(S) -> S] : \A i, j \in 1..Cardinality(S) : s[i] = s[j] => i = j}

\* ------------------------------------------------------------ file system
\* A file: what kind it is and its data (a sequence of strings).
File(kind, data) == [kind |-> kind, data |-> data]
\* Audio of clip `name` spoken in `lang`.
Audio(kind, name, lang) == File(kind, <<name, lang>>)

\* Files of directory d whose name ends in ext and does not start with a
\* dot: glob.glob(os.path.join(d, "*" + ext)).
glob(fs, d, ext) ==
    {p \in DOMAIN fs : LET name == basename(p)
                       IN /\ EndsWith(name, ext)
                          /\ ~StartsWith(name, <<".">>)
                          /\ dirname(p) = d}

\* Writing file p with content c.
WriteFile(fs, p, c) == (p :> c) @@ fs

\* ----------------------------------------------------------------- state
VARIABLES
    work_dir,          \* args.work_dir
    skip_translation,  \* args.skip_translation
    hasModel,          \* os.path.exists("SeamlessExpressive")
    hasLib,            \* os.path.exists("libtiptoi")
    gme,               \* content of the input cartridge
    disk,              \* files: path -> File
    dirs,              \* directories that exist
    pc,                \* position of main()
    err,               \* exception that ended the run, None otherwise
    log,               \* messages written with log.info/log.warning
    invoked,           \* external collaborators used so far
    extract_rc,        \* exit status of `libtiptoi x`
    repack_rc,         \* exit status of `libtiptoi r`
    ogg_paths, normal_length, too_long, speech, sounds,
    has_voice,         \* results of the process pool, by index; Nothing = pending
    worker_verdict,          \* what the worker of each task has computed; Nothing = not yet
    translated,        \* list of TranslatedAudio
    futures,           \* tasks of the thread pool: in_path, out_path, state
    procs,             \* the ffmpeg process of each task: what it has done so far
    rows,              \* data rows of report.csv
    filelist_path, new_gme_path

vars == <<work_dir, skip_translation, hasModel, hasLib, gme, disk, dirs, pc, err, log,
          invoked, extract_rc, repack_rc, ogg_paths, normal_length, too_long, speech,
          sounds, has_voice, worker_verdict, translated, futures, procs, rows, filelist_path, new_gme_path>>

args == <<work_dir, skip_translation, hasModel, hasLib, gme>>
lists == <<ogg_paths, normal_length, too_long, speech, sounds>>

\* Directory layout under args.work_dir.
extracted_dir == join(work_dir, S_extracted)
translated_dir == join(work_dir, S_translated)
final_dir == join(work_dir, S_final)

\* TranslatedAudio(path, text)
TranslatedAudio(path, text) == [path |-> path, text |-> text]

\* Transcript the translator returns for a clip and the transcript a
\* transcript file found in translated/ before the run holds for it.
Transcript(name) == <<"e","n",":">> \o name
PriorTranscript(name) == <<"o","l","d",":">> \o name

\* translated/ as found before the run: a transcript file for the clips of
\* P, with the translated audio next to it when withMp3.
PriorDisk(wd, P, withMp3) ==
    LET td == join(wd, S_translated)
        txt == {join(td, n \o S_txt) : n \in P}
        mp3 == IF withMp3 THEN {join(td, n \o S_mp3) : n \in P} ELSE {}
    IN [p \in txt \cup mp3 |->
          LET n == splitext(basename(p))[1]
          IN IF p \in txt THEN File("txt", <<PriorTranscript(n)>>)
             ELSE Audio("mp3", n, S_eng)]

\* Directories holding the files of fs.
ParentDirs(fs) == {dirname(p) : p \in DOMAIN fs} \cup {dirname(dirname(p)) : p \in DOMAIN fs}

\* State at the start of main(), the input cartridge being one of
\* `cartridges`.  `from . import s2st, audio_utils` has run by then, and
\* with it MODEL = silero_vad.load_silero_vad() of audio_utils: the VAD
\* model is loaded before main() and its checks.
InitOver(cartridges) ==
    /\ work_dir \in WorkDirs
    /\ skip_translation \in BOOLEAN
    /\ hasModel \in BOOLEAN
    /\ hasLib \in BOOLEAN
    /\ gme \in cartridges
    /\ \E P \in SUBSET DOMAIN gme, withMp3 \in BOOLEAN :
          disk = IF skip_translation
                 THEN PriorDisk(str_replace(work_dir, <<" ">>, <<"_">>), P, withMp3)
                 ELSE <<>>
    /\ dirs = ParentDirs(disk)
    /\ pc = "checks"
    /\ err = None
    /\ log = <<>>
    /\ invoked = {"vad_load"}
    /\ extract_rc = Nothing
    /\ repack_rc = Nothing
    /\ ogg_paths = <<>> /\ normal_length = <<>> /\ too_long = <<>>
    /\ speech = <<>> /\ sounds = <<>>
    /\ has_voice = <<>>
    /\ worker_verdict = <<>>
    /\ translated = <<>>
    /\ futures = <<>>
    /\ procs = <<>>
    /\ rows = <<>>
    /\ filelist_path = Nothing
    /\ new_gme_path = Nothing

Init == InitOver(Cartridges)

\* An uncaught exception ends the run.
Raise(e) == pc' = "aborted" /\ err' = e

\* ---------------------------------------------------------------- checks
\* checks() with its second assertion left out.
checks_pass_model_only == hasModel

\* The two assertions of checks().
checks_pass == hasModel /\ hasLib

\* main(): "Performing initial checks", checks(args).
Checks ==
    /\ pc = "checks"
    /\ IF ~checks_pass
       THEN /\ Raise("AssertionError")
            /\ log' = Append(log, "Performing initial checks")
            /\ UNCHANGED work_dir
       ELSE /\ pc' = "create_folders"
            /\ err' = err
            /\ IF Contains(<<" ">>, work_dir)
               THEN /\ work_dir' = str_replace(work_dir, <<" ">>, <<"_">>)
                    /\ log' = log \o <<"Performing initial checks", "Space was detected">>
               ELSE /\ work_dir' = work_dir
                    /\ log' = Append(log, "Performing initial checks")
    /\ UNCHANGED <<skip_translation, hasModel, hasLib, gme, disk, dirs, invoked,
                   extract_rc, repack_rc, lists, has_voice, worker_verdict, translated, futures, procs, rows,
                   filelist_path, new_gme_path>>

\* create_folders(work_dir): os.makedirs(path, exist_ok=True) for the three
\* directories (and so for work_dir).
CreateFolders ==
    /\ pc = "create_folders"
    /\ dirs' = dirs \cup {work_dir, extracted_dir, translated_dir, final_dir}
    /\ log' = Append(log, "Created folder structure")
    /\ pc' = "extract_ogg"
    /\ UNCHANGED <<args, disk, err, invoked, extract_rc, repack_rc, lists, has_voice, worker_verdict,
                   translated, futures, procs, rows, filelist_path, new_gme_path>>

\* What `libtiptoi x <extracted_dir>/ <gme>` writes when it does its work:
\* one ogg per clip and the manifest filelist.txt, one path per line.
ExtractedFiles(fs) ==
    LET clip(n) == join(extracted_dir, n \o S_ogg)
        names == sorted(CHOOSE s \in Orders(DOMAIN gme) : TRUE)
        manifest == [i \in 1..Len(names) |-> clip(names[i])]
    IN [p \in {clip(n) : n \in DOMAIN gme} |-> Audio("ogg", splitext(basename(p))[1], S_deu)]
       @@ (join(extracted_dir, S_filelist_txt) :> File("filelist", manifest))
       @@ fs

\* extract_ogg(input_gme_path, extracted_dir): the handler's body is
\* `if exc.returncode == 1: pass`, so no exit status leaves the function as
\* an exception; whatever *.ogg the directory holds is returned, in the
\* order the directory listing gives.
ExtractOgg ==
    /\ pc = "extract_ogg"
    /\ \E rc \in ExitCodes, produced \in BOOLEAN :
         LET fs == IF produced THEN ExtractedFiles(disk) ELSE disk
         IN /\ extract_rc' = Some(rc)
            /\ disk' = fs
            /\ \E order \in Orders(glob(fs, extracted_dir, S_ogg)) : ogg_paths' = order
    /\ invoked' = invoked \cup {"libtiptoi x"}
    /\ log' = Append(log, "Extracted files")
    /\ pc' = "split_by_length"
    /\ UNCHANGED <<args, dirs, err, repack_rc, normal_length, too_long, speech, sounds,
                   has_voice, worker_verdict, translated, futures, procs, rows, filelist_path, new_gme_path>>

\* ------------------------------------------------------------ classifiers
\* Clip whose audio the file at path p holds.
ClipOf(fs, p) == fs[p].data[1]

\* sox.file_info.duration(path)
sox_duration(p) == gme[ClipOf(disk, p)].dur

\* audio_utils.check_audio_length(audio_path): raises when the duration is
\* unknown, otherwise length <= max_length.
check_audio_length_strict(audio_path) ==
    LET length == sox_duration(audio_path)
    IN [raised |-> length = Nothing,
        value |-> IF length = Nothing THEN FALSE ELSE length[1] < max_length]

check_audio_length(audio_path) ==
    LET length == sox_duration(audio_path)
    IN [raised |-> length = Nothing,
        value |-> IF length = Nothing THEN FALSE ELSE length[1] <= max_length]

\* audio_utils.detect_speech(audio_path): bool(speech_timestamps)
detect_speech(audio_path) == gme[ClipOf(disk, audio_path)].voice

\* The two lists split_by_length returns from the verdicts ok_length.
too_long_swapped(paths, ok_length) == FilterIdx(paths, ok_length, 1)

normal_length_of(paths, ok_length) == FilterIdx(paths, ok_length, 1)

too_long_of(paths, ok_length) == FilterIdx(paths, [i \in 1..Len(paths) |-> ~ok_length[i]], 1)

\* split_by_length(ogg_paths)
SplitByLength ==
    /\ pc = "split_by_length"
    /\ invoked' = IF ogg_paths = <<>> THEN invoked ELSE invoked \cup {"sox"}
    /\ IF \E i \in 1..Len(ogg_paths) : check_audio_length(ogg_paths[i]).raised
       THEN /\ Raise("ValueError: audio length could not be determined")
            /\ UNCHANGED <<normal_length, too_long, log>>
       ELSE LET ok_length == [i \in 1..Len(ogg_paths) |-> check_audio_length(ogg_paths[i]).value]
            IN /\ normal_length' = normal_length_of(ogg_paths, ok_length)
               /\ too_long' = too_long_of(ogg_paths, ok_length)
               /\ log' = Append(log, "audio files will not be translated because of their duration")
               /\ pc' = "copy_too_long"
               /\ err' = err
    /\ UNCHANGED <<args, disk, dirs, extract_rc, repack_rc, ogg_paths, speech, sounds,
                   has_voice, worker_verdict, translated, futures, procs, rows, filelist_path, new_gme_path>>

\* shutil.copy(p, d) for every p of paths, d a directory.
RECURSIVE copy_all(_, _, _)
copy_all(fs, paths, d) ==
    IF paths = <<>> THEN fs
    ELSE copy_all(WriteFile(fs, join(d, basename(Head(paths))), fs[Head(paths)]), Tail(paths), d)

\* [shutil.copy(p, final_dir) for p in too_long]
CopyTooLong ==
    /\ pc = "copy_too_long"
    /\ disk' = copy_all(disk, too_long, final_dir)
    /\ log' = Append(log, "Copied too long audios")
    /\ pc' = "split_by_speech"
    /\ UNCHANGED <<args, dirs, err, invoked, extract_rc, repack_rc, lists, has_voice, worker_verdict,
                   translated, futures, procs, rows, filelist_path, new_gme_path>>

\* split_by_speech: e.map(audio_utils.detect_speech, paths) submits one task
\* per path, one after the other, while the worker processes already run the
\* tasks submitted so far.  With the last path submitted (or none to submit)
\* map returns and the `with` block waits for the pool.
SpeechSubmit ==
    /\ pc = "split_by_speech"
    /\ IF Len(has_voice) < Len(normal_length)
       THEN /\ has_voice' = Append(has_voice, Nothing)
            /\ worker_verdict' = Append(worker_verdict, Nothing)
       ELSE UNCHANGED <<has_voice, worker_verdict>>
    /\ pc' = IF Len(has_voice') = Len(normal_length) THEN "vad_pool" ELSE pc
    /\ UNCHANGED <<args, disk, dirs, err, log, invoked, extract_rc, repack_rc, lists,
                   translated, futures, procs, rows, filelist_path, new_gme_path>>

\* A worker process takes the submitted task of index i and calls
\* audio_utils.detect_speech on its path: the VAD is used and the verdict is
\* with the worker, the Future of the task has no result yet.
DetectSpeech(i) ==
    /\ pc \in {"split_by_speech", "vad_pool"}
    /\ worker_verdict[i] = Nothing
    /\ worker_verdict' = [worker_verdict EXCEPT ![i] = Some(detect_speech(normal_length[i]))]
    /\ invoked' = invoked \cup {"vad"}
    /\ UNCHANGED <<args, disk, dirs, pc, err, log, extract_rc, repack_rc, lists, has_voice,
                   translated, futures, procs, rows, filelist_path, new_gme_path>>

\* The verdict of task i comes back from its worker process and reaches the
\* Future of the task; map() files it under the index of its argument.
SpeechResult(i) ==
    /\ pc \in {"split_by_speech", "vad_pool"}
    /\ has_voice[i] = Nothing
    /\ worker_verdict[i] # Nothing
    /\ has_voice' = [has_voice EXCEPT ![i] = worker_verdict[i]]
    /\ UNCHANGED <<args, disk, dirs, pc, err, log, invoked, extract_rc, repack_rc, lists,
                   worker_verdict, translated, futures, procs, rows, filelist_path, new_gme_path>>

\* The two lists split_by_speech returns from the verdicts.
speech_of(paths, verdicts) == FilterIdx(paths, [i \in 1..Len(paths) |-> verdicts[i][1]], 1)

sounds_of(paths, verdicts) == FilterIdx(paths, [i \in 1..Len(paths) |-> ~verdicts[i][1]], 1)

\* split_by_speech: the pool is shut down (all tasks done), the results are
\* listed and the two lists built.
SpeechCollect ==
    /\ pc = "vad_pool"
    /\ \A i \in 1..Len(has_voice) : has_voice[i] # Nothing
    /\ speech' = speech_of(normal_length, has_voice)
    /\ sounds' = sounds_of(normal_length, has_voice)
    /\ log' = Append(log, "Voice was detected")
    /\ pc' = "copy_sounds"
    /\ UNCHANGED <<args, disk, dirs, err, invoked, extract_rc, repack_rc, ogg_paths,
                   normal_length, too_long, has_voice, worker_verdict, translated, futures, procs, rows,
                   filelist_path, new_gme_path>>

\* [shutil.copy(p, final_dir) for p in sounds]
CopySounds ==
    /\ pc = "copy_sounds"
    /\ disk' = copy_all(disk, sounds, final_dir)
    /\ log' = Append(log, "Copied audios without speech")
    /\ pc' = "translate"
    /\ UNCHANGED <<args, dirs, err, invoked, extract_rc, repack_rc, lists, has_voice, worker_verdict,
                   translated, futures, procs, rows, filelist_path, new_gme_path>>

\* ------------------------------------------------------------ translation
\* read_translated_from_disk(paths, translated_dir) over the files fs: for
\* every path the transcript <base>.txt is opened and read; open() raises
\* when it is missing.  The mp3 path is built, the file is not looked at.
RECURSIVE read_translated_from_disk(_, _, _)
read_translated_from_disk(paths, tdir, fs) ==
    IF paths = <<>> THEN [raised |-> FALSE, out |-> <<>>]
    ELSE LET file_name_base == splitext(basename(Head(paths)))[1]
             translated_path == join(tdir, file_name_base \o S_mp3)
             text_path == join(tdir, file_name_base \o S_txt)
         IN IF text_path \notin DOMAIN fs
            THEN [raised |-> TRUE, out |-> <<>>]
            ELSE LET more == read_translated_from_disk(Tail(paths), tdir, fs)
                 IN [raised |-> more.raised,
                     out |-> IF more.raised THEN <<>>
                             ELSE <<TranslatedAudio(translated_path, fs[text_path].data[1])>>
                                  \o more.out]

\* main(), --skip_translation branch.
SkipTranslation ==
    /\ pc = "translate"
    /\ skip_translation
    /\ LET r == read_translated_from_disk(speech, translated_dir, disk)
       IN IF r.raised
          THEN /\ Raise("FileNotFoundError")
               /\ log' = Append(log, "Skipping translation")
               /\ UNCHANGED translated
          ELSE /\ translated' = r.out
               /\ log' = log \o <<"Skipping translation", "Loaded translated audio files">>
               /\ IF r.out = <<>>
                  THEN Raise("ValueError: No translated audio files were found")
                  ELSE pc' = "convert_to_ogg" /\ err' = err
    /\ UNCHANGED <<args, disk, dirs, invoked, extract_rc, repack_rc, lists, has_voice, worker_verdict,
                   futures, procs, rows, filelist_path, new_gme_path>>

\* main(), translation branch, and translate_audio_files up to its loop:
\* the model is set up and the output directory made.
TranslateSetup ==
    /\ pc = "translate"
    /\ ~skip_translation
    /\ invoked' = invoked \cup {"translator"}
    /\ dirs' = dirs \cup {translated_dir}
    /\ log' = Append(log, "Translating audio files")
    /\ translated' = <<>>
    /\ pc' = "translating"
    /\ UNCHANGED <<args, disk, err, extract_rc, repack_rc, lists, has_voice, worker_verdict, futures, procs,
                   rows, filelist_path, new_gme_path>>

\* Output path of translate_audio_files for the input `path`.
output_path_keeps_ext(output_directory, path) ==
    join(output_directory, basename(path) \o S_mp3)

output_path_of(output_directory, path) ==
    join(output_directory, splitext(basename(path))[1] \o S_mp3)

\* One turn of the loop of translate_audio_files: the next clip is loaded,
\* translated, saved as <output_directory>/<base>.mp3 and its TranslatedAudio
\* appended.  Nothing catches an exception of the inference.
TranslateClip ==
    /\ pc = "translating"
    /\ Len(translated) < Len(speech)
    /\ LET path == speech[Len(translated) + 1]
           output_path == output_path_of(translated_dir, path)
       IN \E ok \in BOOLEAN :
            IF ok
            THEN /\ disk' = WriteFile(disk, output_path, Audio("mp3", ClipOf(disk, path), S_eng))
                 /\ translated' = Append(translated,
                                         TranslatedAudio(output_path, Transcript(ClipOf(disk, path))))
                 /\ UNCHANGED <<pc, err>>
            ELSE /\ Raise("RuntimeError")
                 /\ UNCHANGED <<disk, translated>>
    /\ UNCHANGED <<args, dirs, log, invoked, extract_rc, repack_rc, lists, has_voice, worker_verdict,
                   futures, procs, rows, filelist_path, new_gme_path>>

\* translate_audio_files returns `out`.
TranslateReturn ==
    /\ pc = "translating"
    /\ Len(translated) = Len(speech)
    /\ pc' = "convert_to_ogg"
    /\ UNCHANGED <<args, disk, dirs, err, log, invoked, extract_rc, repack_rc, lists,
                   has_voice, worker_verdict, translated, futures, procs, rows, filelist_path, new_gme_path>>

\* -------------------------------------------------------------- re-encode
\* Output path convert_to_ogg gives the translated file in_path.
out_path_shared(fdir, in_path) == join(fdir, <<"o","u","t">> \o S_ogg)

out_path_of(fdir, in_path) == join(fdir, splitext(basename(in_path))[1] \o S_ogg)

\* convert_to_ogg: the loop calls e.submit(convert_mp3_to_ogg, in_path,
\* out_path) for one translated file after the other, while the worker
\* threads already run the tasks submitted so far; the Future that submit
\* returns is dropped.  With the last file submitted (or none to submit) the
\* loop ends and the `with` block waits for the pool.
ConvertSubmit ==
    /\ pc = "convert_to_ogg"
    /\ LET n == Len(futures) + 1
       IN IF n <= Len(translated)
          THEN /\ futures' = Append(futures,
                                [in_path |-> translated[n].path,
                                 out_path |-> out_path_of(final_dir, translated[n].path),
                                 state |-> "pending"])
               /\ procs' = Append(procs, "not_started")
          ELSE UNCHANGED <<futures, procs>>
    /\ pc' = IF Len(futures') = Len(translated) THEN "thread_pool" ELSE pc
    /\ UNCHANGED <<args, disk, dirs, err, log, invoked, extract_rc, repack_rc, lists,
                   has_voice, worker_verdict, translated, rows, filelist_path, new_gme_path>>

\* What ffmpeg has put at its output path when it has begun to write it and
\* has not finished.
Truncated(f) == File("ogg", Append(f.data, <<"t","r","u","n","c","a","t","e","d">>))

\* A worker thread enters convert_mp3_to_ogg(in_path, out_path): check_call
\* starts `ffmpeg -y -i in_path out_path` and waits for the process, while
\* the Future of the task stays pending and the other threads run.
FfmpegRun(i) ==
    /\ pc \in {"convert_to_ogg", "thread_pool"}
    /\ futures[i].state = "pending"
    /\ procs[i] = "not_started"
    /\ procs' = [procs EXCEPT ![i] = "running"]
    /\ invoked' = invoked \cup {"ffmpeg"}
    /\ UNCHANGED <<args, disk, dirs, pc, err, log, extract_rc, repack_rc, lists, has_voice, worker_verdict,
                   translated, futures, rows, filelist_path, new_gme_path>>

\* The ffmpeg process of the task writes: having read in_path it creates
\* out_path, which holds a part of the output first and the whole of it
\* when the process is through.
FfmpegWrite(i) ==
    /\ pc \in {"convert_to_ogg", "thread_pool"}
    /\ procs[i] \in {"running", "writing"}
    /\ futures[i].in_path \in DOMAIN disk
    /\ IF procs[i] = "running"
       THEN /\ disk' = WriteFile(disk, futures[i].out_path,
                                 Truncated(disk[futures[i].in_path]))
            /\ procs' = [procs EXCEPT ![i] = "writing"]
       ELSE /\ disk' = WriteFile(disk, futures[i].out_path,
                                 File("ogg", disk[futures[i].in_path].data))
            /\ procs' = [procs EXCEPT ![i] = "wrote"]
    /\ UNCHANGED <<args, dirs, pc, err, log, invoked, extract_rc, repack_rc, lists,
                   has_voice, worker_verdict, translated, futures, rows, filelist_path, new_gme_path>>

\* The ffmpeg process of the task fails: before it has created out_path
\* (always so when in_path is missing), or half-way, leaving the part it has
\* written.
FfmpegFail(i) ==
    /\ pc \in {"convert_to_ogg", "thread_pool"}
    /\ procs[i] \in {"running", "writing"}
    /\ procs' = [procs EXCEPT ![i] = IF procs[i] = "running"
                                     THEN "failed" ELSE "failed_truncated"]
    /\ UNCHANGED <<args, disk, dirs, pc, err, log, invoked, extract_rc, repack_rc, lists,
                   has_voice, worker_verdict, translated, futures, rows, filelist_path, new_gme_path>>

\* The ffmpeg process of the task has exited: check_call returns, or raises
\* CalledProcessError inside the task, where the exception stays in the
\* Future.
ConvertTask(i) ==
    /\ pc \in {"convert_to_ogg", "thread_pool"}
    /\ futures[i].state = "pending"
    /\ procs[i] \in {"wrote", "failed", "failed_truncated"}
    /\ futures' = [futures EXCEPT ![i].state =
                      IF procs[i] = "wrote" THEN "done" ELSE "exception"]
    /\ UNCHANGED <<args, disk, dirs, pc, err, log, invoked, extract_rc, repack_rc, lists,
                   has_voice, worker_verdict, translated, procs, rows, filelist_path, new_gme_path>>

\* End of the `with` block of convert_to_ogg: shutdown(wait=True) waits for
\* every task; nothing asks a Future for its result, so the exception of a
\* failed task is not raised here.
ConvertJoin ==
    /\ pc = "thread_pool"
    /\ \A i \in 1..Len(futures) : futures[i].state # "pending"
    /\ pc' = "csv_report"
    /\ log' = Append(log, "Converted translated mp3 files into ogg files")
    /\ UNCHANGED <<args, disk, dirs, err, invoked, extract_rc, repack_rc, lists,
                   has_voice, worker_verdict, translated, futures, procs, rows, filelist_path, new_gme_path>>

\* ----------------------------------------------------------------- report
\* csv_report: category of a clip.
category_of(ogg, tl, sp) ==
    IF \E i \in 1..Len(tl) : tl[i] = ogg THEN "Too long"
    ELSE IF \E i \in 1..Len(sp) : sp[i] = ogg THEN "Speech"
    ELSE "Sound"

\* csv_report: transcript of a clip, the text of the first translated file
\* whose path contains the clip's name, "" when there is none.
text_of(name, tr) ==
    LET hits == {i \in 1..Len(tr) : Contains(name, tr[i].path)}
    IN IF hits = {} THEN <<>>
       ELSE tr[CHOOSE i \in hits : \A j \in hits : i <= j].text

\* csv_report: the data rows.
report_rows_unsorted(paths, tl, sp, tr) ==
    [i \in 1..Len(paths) |->
       LET name == splitext(basename(paths[i]))[1]
       IN [name |-> name,
           duration |-> sox_duration(paths[i]),
           category |-> category_of(paths[i], tl, sp),
           text |-> text_of(name, tr)]]

report_rows(paths, tl, sp, tr) ==
    LET srt == sorted(paths)
    IN [i \in 1..Len(srt) |->
          LET name == splitext(basename(srt[i]))[1]
          IN [name |-> name,
              duration |-> sox_duration(srt[i]),
              category |-> category_of(srt[i], tl, sp),
              text |-> text_of(name, tr)]]

\* csv_report(ogg_paths, too_long, speech, translated, work_dir)
CsvReport ==
    /\ pc = "csv_report"
    /\ rows' = report_rows(ogg_paths, too_long, speech, translated)
    /\ invoked' = IF ogg_paths = <<>> THEN invoked ELSE invoked \cup {"sox"}
    /\ disk' = WriteFile(disk, join(work_dir, S_report_csv), File("csv", <<>>))
    /\ log' = Append(log, "Saved a CSV report")
    /\ pc' = "prepare_filelist"
    /\ UNCHANGED <<args, dirs, err, extract_rc, repack_rc, lists, has_voice, worker_verdict, translated,
                   futures, procs, filelist_path, new_gme_path>>

\* ----------------------------------------------------------------- repack
\* prepare_filelist(extracted_dir, final_dir): open() raises when the
\* manifest of the extraction is missing.
PrepareFilelist ==
    /\ pc = "prepare_filelist"
    /\ LET path_src == join(extracted_dir, S_filelist_txt)
           path_dst == join(final_dir, S_filelist_txt)
       IN IF path_src \notin DOMAIN disk
          THEN /\ Raise("FileNotFoundError")
               /\ UNCHANGED <<disk, filelist_path, log>>
          ELSE LET filelist_src == disk[path_src].data
                   filelist_dst == [i \in 1..Len(filelist_src) |->
                                      str_replace(filelist_src[i], extracted_dir, final_dir)]
               IN /\ disk' = WriteFile(disk, path_dst, File("filelist", filelist_dst))
                  /\ filelist_path' = Some(path_dst)
                  /\ log' = Append(log, "Created filelist")
                  /\ pc' = "create_gme"
                  /\ err' = err
    /\ UNCHANGED <<args, dirs, invoked, extract_rc, repack_rc, lists, has_voice, worker_verdict,
                   translated, futures, procs, rows, new_gme_path>>

\* create_gme(work_dir, filelist_path, input_gme_path) and the end of
\* main(): as in extract_ogg no exit status leaves as an exception, and
\* new_path is returned whether or not the tool wrote it.
CreateGme ==
    /\ pc = "create_gme"
    /\ LET file_name_base == splitext(basename(input_gme_path))[1]
           new_path == join(work_dir, file_name_base \o S_eng_gme)
       IN /\ \E rc \in ExitCodes, produced \in BOOLEAN :
               /\ repack_rc' = Some(rc)
               /\ disk' = IF produced
                          THEN WriteFile(disk, new_path, File("gme", disk[filelist_path[1]].data))
                          ELSE disk
          /\ new_gme_path' = Some(new_path)
    /\ invoked' = invoked \cup {"libtiptoi r"}
    /\ log' = log \o <<"Created translated GME", "Done">>
    /\ pc' = "done"
    /\ UNCHANGED <<args, dirs, err, extract_rc, lists, has_voice, worker_verdict, translated, futures, procs,
                   rows, filelist_path>>

Next == \/ Checks \/ CreateFolders \/ ExtractOgg \/ SplitByLength \/ CopyTooLong
        \/ SpeechSubmit \/ (\E i \in DOMAIN has_voice : DetectSpeech(i))
        \/ (\E i \in DOMAIN has_voice : SpeechResult(i))
        \/ SpeechCollect \/ CopySounds
        \/ SkipTranslation \/ TranslateSetup \/ TranslateClip \/ TranslateReturn
        \/ ConvertSubmit \/ (\E i \in DOMAIN futures : FfmpegRun(i))
        \/ (\E i \in DOMAIN futures : FfmpegWrite(i))
        \/ (\E i \in DOMAIN futures : FfmpegFail(i))
        \/ (\E i \in DOMAIN futures : ConvertTask(i)) \/ ConvertJoin
        \/ CsvReport \/ PrepareFilelist \/ CreateGme

Spec == Init /\ [][Next]_vars

\* The same program over cartridges whose clip names are PrefixNames.
InitPrefixNames == InitOver(CartridgesOver(PrefixNames))
SpecPrefixNames == InitPrefixNames /\ [][Next]_vars

\* ==================================================================
\* Properties
\* ==================================================================
Logged(m) == \E i \in 1..Len(log) : log[i] = m
\* Path of the file of clip `name` in the final directory.
FinalPath(name) == join(final_dir, name \o S_ogg)
\* Base name of an extracted clip.
BaseName(p) == splitext(basename(p))[1]
ReencodeFailed == \E i \in DOMAIN futures : futures[i].state = "exception"

\* C1: whenever a run reaches the Repack stage (create_gme), every extracted
\* clip has its file <base name>.ogg in the final directory.
C1_FinalHoldsEveryClip ==
    pc \in {"create_gme", "done"} =>
        \A i \in 1..Len(ogg_paths) : FinalPath(BaseName(ogg_paths[i])) \in DOMAIN disk

\* C2: on the translated/ directory a completed run without
\* --skip_translation leaves behind, read_translated_from_disk over the same
\* speech clips returns the list translate_audio_files returned.
C2_ResumeReproducesTranslated ==
    (pc = "done" /\ ~skip_translation) =>
        LET r == read_translated_from_disk(speech, translated_dir, disk)
        IN ~r.raised /\ r.out = translated

\* C3: an exit status of the extraction or the repack tool other than 0 and
\* the success-coded-as-failure status 1 aborts the run with an external
\* tool error: no later stage after the extraction, no returned cartridge
\* path after the repack.
C3_ToolFailureAborts ==
    /\ (extract_rc # Nothing /\ extract_rc[1] \notin {0, 1}) =>
          (pc = "aborted" /\ err = "CalledProcessError" /\ ~Logged("Extracted files"))
    /\ (repack_rc # Nothing /\ repack_rc[1] \notin {0, 1}) =>
          (pc = "aborted" /\ err = "CalledProcessError" /\ new_gme_path = Nothing)

\* Artifacts of the extraction: every clip of the cartridge and the manifest.
ExtractionArtifacts ==
    /\ join(extracted_dir, S_filelist_txt) \in DOMAIN disk
    /\ \A n \in DOMAIN gme : join(extracted_dir, n \o S_ogg) \in DOMAIN disk

\* C4: the run goes on after the extraction only when the extracted clips and
\* the manifest exist, and reports a created cartridge only when the new
\* cartridge file exists, whatever the exit status.
C4_SuccessOnlyWithArtifacts ==
    /\ Logged("audio files will not be translated because of their duration")
          => ExtractionArtifacts
    /\ Logged("Created translated GME")
          => (new_gme_path # Nothing /\ new_gme_path[1] \in DOMAIN disk)

\* Transcript of the TranslatedAudio produced from clip `name`, "" when the
\* clip has none.
OwnTranscript(name) ==
    LET own == {j \in 1..Len(translated) :
                   translated[j].path = join(translated_dir, name \o S_mp3)}
    IN IF own = {} THEN <<>> ELSE translated[CHOOSE j \in own : TRUE].text

\* C5: the transcript of a clip's report row is the transcript of the
\* TranslatedAudio produced from that clip, and empty for a clip without one.
C5_RowTranscriptIsOwn ==
    \A i \in 1..Len(rows) : rows[i].text = OwnTranscript(rows[i].name)

\* C6: when translating or re-encoding a clip fails the run aborts: neither
\* Report, filelist creation nor Repack is performed afterwards.
C6_ClipFailureAborts ==
    (ReencodeFailed \/ err = "RuntimeError") =>
        /\ ~Logged("Saved a CSV report")
        /\ filelist_path = Nothing
        /\ "libtiptoi r" \notin invoked

\* No file in translated/.
TranslatedDirEmpty == \A p \in DOMAIN disk : dirname(p) # translated_dir

\* C7: with --skip_translation and nothing in translated/, the run fails with
\* the error 'No translated audio files were found' before any re-encoding,
\* report or repack.
C7_EmptyResumeFailsExplicitly ==
    (skip_translation /\ Logged("Skipping translation") /\ TranslatedDirEmpty) =>
        /\ pc = "aborted"
        /\ err = "ValueError: No translated audio files were found"
        /\ futures = <<>> /\ rows = <<>> /\ "libtiptoi r" \notin invoked

C9_PartitionAndCategory ==
    /\ Logged("Voice was detected") =>
          /\ Range(too_long) \cap Range(sounds) = {}
          /\ Range(too_long) \cap Range(speech) = {}
          /\ Range(sounds) \cap Range(speech) = {}
          /\ Range(too_long) \cup Range(sounds) \cup Range(speech) = Range(ogg_paths)
          /\ Len(too_long) + Len(sounds) + Len(speech) = Len(ogg_paths)
          /\ Range(ogg_paths) = glob(disk, extracted_dir, S_ogg)
    /\ \A i \in 1..Len(rows) :
          LET p == join(extracted_dir, rows[i].name \o S_ogg)
          IN /\ rows[i].category = "Too long" <=> p \in Range(too_long)
             /\ rows[i].category = "Speech" <=> p \in Range(speech)
             /\ rows[i].category = "Sound" <=> p \in Range(sounds)

C9_Witness ==
    /\ pc = "done"
    /\ too_long # <<>> /\ speech # <<>>
    /\ \E i, j \in 1..Len(rows) : rows[i].category = "Too long" /\ rows[j].category = "Speech"

\* C10: a clip of known duration passes check_audio_length exactly when its
\* duration is at most the threshold of 50 seconds (50 itself passes), and
\* split_by_length puts it in normal_length when it passes and in too_long
\* otherwise.
C10_LengthSplit ==
    Logged("audio files will not be translated because of their duration") =>
        \A i \in 1..Len(ogg_paths) :
            LET p == ogg_paths[i]
                d == gme[BaseName(p)].dur
            IN /\ d # Nothing
               /\ check_audio_length(p).value <=> d[1] <= 50
               /\ p \in Range(normal_length) <=> d[1] <= 50
               /\ p \in Range(too_long) <=> d[1] > 50

C10_Witness ==
    /\ pc = "copy_too_long"
    /\ \E i \in 1..Len(normal_length) : gme[BaseName(normal_length[i])].dur = Some(50)
    /\ \E i \in 1..Len(too_long) : gme[BaseName(too_long[i])].dur = Some(51)

\* C11: csv_report writes exactly one data row per extracted clip, whether
\* or not translation ran, and the rows are in ascending order of the clip
\* name of their first column.
C11_OneRowPerClipSortedByName ==
    Logged("Saved a CSV report") =>
        /\ Len(rows) = Len(ogg_paths)
        /\ \A i \in 1..Len(ogg_paths) :
              Cardinality({j \in 1..Len(rows) : rows[j].name = BaseName(ogg_paths[i])}) = 1
        /\ \A i, j \in 1..Len(rows) : i < j => StrLess(rows[i].name, rows[j].name)

\* Path of the extracted file of the clip of a report row.
RowPath(r) == join(extracted_dir, r.name \o S_ogg)

\* C11, amended: csv_report writes exactly one data row per extracted clip,
\* whether or not translation ran, and the rows are in ascending order of
\* the path of the clip's extracted file (its name with the extension).
C11_OneRowPerClipSortedByPath ==
    Logged("Saved a CSV report") =>
        /\ Len(rows) = Len(ogg_paths)
        /\ \A i \in 1..Len(ogg_paths) :
              Cardinality({j \in 1..Len(rows) : rows[j].name = BaseName(ogg_paths[i])}) = 1
        /\ \A i, j \in 1..Len(rows) : i < j => StrLess(RowPath(rows[i]), RowPath(rows[j]))

C11_Witness ==
    /\ Logged("Saved a CSV report")
    /\ Len(rows) = 2
    /\ rows[1].name = <<"a","_","1"," ","d">> /\ rows[2].name = <<"a","_","1">>
    /\ ogg_paths[1] = RowPath(rows[2])
    /\ ~skip_translation /\ translated # <<>>

\* translate_audio_files has returned to main().
TranslationReturned ==
    /\ ~skip_translation
    /\ pc \in {"convert_to_ogg", "thread_pool", "csv_report", "prepare_filelist",
               "create_gme", "done"}

\* Result i is the TranslatedAudio of input i: its path is
\* <output_directory>/<base name of the input>.mp3 and the file exists.
ResultOfInput(i) ==
    /\ translated[i].path = join(translated_dir, BaseName(speech[i]) \o S_mp3)
    /\ translated[i].path \in DOMAIN disk
    /\ disk[translated[i].path].kind = "mp3"

\* C12: translate_audio_files returns exactly one TranslatedAudio per input
\* path, in input order; each result's path is
\* <output_directory>/<base name of the input>.mp3 and that file exists when
\* the function returns.  The clips are processed one at a time: while the
\* loop runs, the results so far are those of the first inputs and no other
\* clip has been written.
C12_OneResultPerInputInOrder ==
    /\ TranslationReturned =>
          /\ Len(translated) = Len(speech)
          /\ \A i \in 1..Len(speech) : ResultOfInput(i)
    /\ (pc = "translating") =>
          /\ Len(translated) <= Len(speech)
          /\ \A i \in 1..Len(translated) : ResultOfInput(i)
          /\ Cardinality(glob(disk, translated_dir, S_mp3)) = Len(translated)

C12_Witness ==
    /\ pc = "convert_to_ogg" /\ ~skip_translation
    /\ Len(speech) = 2 /\ Len(translated) = 2
    /\ StrLess(speech[2], speech[1])

\* The *.ogg files the final directory holds once the copies are made and
\* the thread pool is done, from the lists and the outcome of each ffmpeg
\* process alone: the too-long and sound clips as extracted, for every
\* process that wrote its output the re-encoded audio of its own input, and
\* for every process that failed half-way the truncated one.
ExpectedFinalOgg ==
    LET copied == Range(too_long) \cup Range(sounds)
        copyOf == [p \in copied |-> FinalPath(BaseName(p))]
        wrote == {i \in DOMAIN procs : procs[i] \in {"wrote", "failed_truncated"}}
        paths == {copyOf[p] : p \in copied} \cup {futures[i].out_path : i \in wrote}
        OutputOf(i) == IF procs[i] = "wrote"
                       THEN File("ogg", disk[futures[i].in_path].data)
                       ELSE Truncated(disk[futures[i].in_path])
    IN [q \in paths |->
          IF \E p \in copied : copyOf[p] = q
          THEN disk[CHOOSE p \in copied : copyOf[p] = q]
          ELSE OutputOf(CHOOSE i \in wrote : futures[i].out_path = q)]

\* The *.ogg files of the final directory, with their contents.
FinalOgg == [q \in glob(disk, final_dir, S_ogg) |-> disk[q]]

\* C13: the outcome of the two pools does not depend on the scheduling of
\* their workers.  In every interleaving of the submissions, the workers and
\* the ffmpeg processes: a speech verdict is filed under the clip it was
\* computed for, and the speech list holds exactly the clips with a voice;
\* the tasks are those of the translated files, no two of them with the same
\* output path; from the first submission until the pool is joined, the
\* output path of a task holds what the ffmpeg process of that very task has
\* written so far and nothing else, and the output path of a task not yet
\* submitted holds nothing; a task completes without an exception exactly
\* when its process wrote the whole output; and after the re-encode stage
\* the final directory holds the same files with the same contents, whatever
\* the order in which the tasks ran.
C13_SchedulingIndependent ==
    /\ Len(has_voice) <= Len(normal_length) /\ Len(worker_verdict) = Len(has_voice)
    /\ \A i \in DOMAIN has_voice :
          /\ worker_verdict[i] # Nothing => worker_verdict[i][1] = gme[BaseName(normal_length[i])].voice
          /\ has_voice[i] # Nothing => has_voice[i] = worker_verdict[i]
    /\ Logged("Voice was detected") =>
          \A i \in 1..Len(normal_length) :
             LET voice == gme[BaseName(normal_length[i])].voice
             IN /\ normal_length[i] \in Range(speech) <=> voice
                /\ normal_length[i] \in Range(sounds) <=> ~voice
    /\ Len(futures) <= Len(translated) /\ Len(procs) = Len(futures)
    /\ \A i \in DOMAIN futures :
          /\ futures[i].in_path = translated[i].path
          /\ futures[i].out_path = FinalPath(BaseName(translated[i].path))
    /\ \A i, j \in DOMAIN futures : futures[i].out_path = futures[j].out_path => i = j
    /\ pc \in {"convert_to_ogg", "thread_pool"} =>
          /\ \A i \in DOMAIN futures :
                /\ procs[i] = "wrote" =>
                      /\ futures[i].out_path \in DOMAIN disk
                      /\ disk[futures[i].out_path] = File("ogg", disk[futures[i].in_path].data)
                /\ procs[i] \in {"writing", "failed_truncated"} =>
                      /\ futures[i].out_path \in DOMAIN disk
                      /\ disk[futures[i].out_path] = Truncated(disk[futures[i].in_path])
                /\ procs[i] \in {"not_started", "running", "failed"} =>
                      futures[i].out_path \notin DOMAIN disk
                /\ futures[i].state = "done" => procs[i] = "wrote"
                /\ futures[i].state = "exception" => procs[i] \in {"failed", "failed_truncated"}
          /\ \A j \in (Len(futures) + 1)..Len(translated) :
                FinalPath(BaseName(translated[j].path)) \notin DOMAIN disk
    /\ pc \in {"csv_report", "prepare_filelist", "create_gme", "done"} =>
          FinalOgg = ExpectedFinalOgg

\* The first re-encode task has completed, its output written, before the
\* second translated file has been submitted to the pool; two verdicts have
\* been filed before.
C13_Witness ==
    /\ pc = "convert_to_ogg"
    /\ Len(translated) = 2 /\ Len(futures) = 1
    /\ futures[1].state = "done"
    /\ futures[1].out_path \in DOMAIN disk
    /\ Len(has_voice) = 2
====
